---- MODULE Spec2Model ----
(***************************************************************************)
(* Model of src/benchmark.py: the HumanizerBenchmark latency harness.      *)
(*                                                                         *)
(* Time is counted in whole seconds.  The remote service is the            *)
(* environment: every answer it can give to GET /health and to             *)
(* POST /humanize is drawn from the outcome sets below.  An action covers  *)
(* all the code that runs between two blocking network calls.              *)
(***************************************************************************)
EXTENDS Integers, Sequences, FiniteSets, TLC

(* ---------------------------- bounds ----------------------------------- *)
\* measured round trips shorter than the ceiling last 1..MaxShort seconds
MaxShort == 1
\* run_benchmark invocations on one instance (SpecReuse only)
MaxRuns == 2

(* ------------------------ program constants ---------------------------- *)
\* timeout=60 of requests.post, and the 60.0 returned on requests.Timeout
TIMEOUT == 60

\* the keys of TEST_TEXTS in the order the for loop visits them
TEXT_SIZES == <<"short", "medium", "long">>

\* len(TEST_TEXTS[text_size])
TEST_TEXTS_len == [short |-> 125, medium |-> 457, long |-> 1299]

NumInputs == Len(TEXT_SIZES)

(* ------------------------- the environment ----------------------------- *)
\* What requests.get(.../health, timeout=5) can produce: a response with a
\* status code, or one of the exceptions of the requests package.
HealthOutcomes ==
    { [kind |-> "response", status |-> 200],
      [kind |-> "response", status |-> 503],
      [kind |-> "ConnectionError", status |-> 0],
      [kind |-> "Timeout", status |-> 0],
      [kind |-> "RequestException", status |-> 0] }

\* Wall-clock durations of a POST that ended with a response.  The timeout
\* of requests bounds each wait on the socket (connect, then every read),
\* not the whole exchange, so a response can arrive later than TIMEOUT.
Durations == (1 .. MaxShort) \cup {TIMEOUT + 1}

\* Bodies of a 200 response:
\*   notJSON       response.json() raises
\*   nonObject     JSON, but not an object (data.get does not exist)
\*   noStatistics  JSON object without the key "statistics"
\*   map / emptyMap / null / list : value under "statistics"
Bodies == {"notJSON", "nonObject", "noStatistics", "map", "emptyMap", "null", "list"}

\* What requests.post(.../humanize, timeout=60) can produce.
PostOutcomes ==
    { [kind |-> "response", status |-> 200, body |-> b, d |-> d] :
          b \in Bodies, d \in Durations }
    \cup { [kind |-> "response", status |-> 500, body |-> "notJSON", d |-> d] :
          d \in Durations }
    \cup { [kind |-> "Timeout", status |-> 0, body |-> "notJSON", d |-> TIMEOUT],
           [kind |-> "ConnectionError", status |-> 0, body |-> "notJSON", d |-> 1] }

\* The coarser service used when one instance is driven several times.
ReuseOutcomes ==
    { o \in PostOutcomes :
          \/ o.kind = "ConnectionError"
          \/ o.kind = "response" /\ o.status = 200 /\ o.d = 1
                /\ o.body \in {"map", "list"} }

(* ------------------------- python values ------------------------------- *)
\* Values a "statistics" result can take: "{}" is the empty dict, "map" a
\* non-empty dict, "null" is None, "list" a non-empty JSON array.
EmptyStats == "{}"

\* bool(stats) as used by `if stats_fast:`
Truthy(stats) == stats \in {"map", "list"}

\* whether stats has a .get method
HasGet(stats) == stats \in {"{}", "map"}

\* a / b on floats: a ratio kept exact as <<numerator, denominator>>
ZeroDivisionError == <<0, 0>>
One == <<1, 1>>
Div(a, b) == IF b = 0 THEN ZeroDivisionError ELSE <<a, b>>

RECURSIVE SumOver(_, _)
\* sum(r[field] for r in seq)
SumOver(seq, field) ==
    IF seq = <<>> THEN 0
    ELSE Head(seq)[field] + SumOver(Tail(seq), field)

(* --------------------------- check_server ------------------------------ *)
\* check_server: `value` is what it returns; `raised` tells that the
\* exception was not one of (requests.ConnectionError, requests.Timeout)
\* and left the function.
check_server(o) ==
    IF o.kind = "response"
    THEN [raised |-> FALSE, value |-> (o.status = 200)]
    ELSE IF o.kind \in {"ConnectionError", "Timeout"}
    THEN [raised |-> FALSE, value |-> FALSE]
    ELSE [raised |-> TRUE, value |-> FALSE]

(* ----------------------- benchmark_humanization ------------------------ *)
\* data.get("statistics", {}) for a JSON object body
StatisticsOf(body) ==
    CASE body = "noStatistics" -> EmptyStats
      [] body = "emptyMap" -> EmptyStats
      [] body = "map" -> "map"
      [] body = "null" -> "null"
      [] body = "list" -> "list"

\* whether the 200 branch (response.json(), data.get) raises
ParseRaises(body) == body \in {"notJSON", "nonObject"}

\* benchmark_humanization with `except Exception` placed before
\* `except requests.Timeout`: a timeout is reported like any other failure
benchmark_humanization_except_order(o) ==
    IF o.kind = "response" THEN
        IF o.status = 200 THEN
            IF ParseRaises(o.body)
            THEN [elapsed |-> 0, stats |-> EmptyStats]
            ELSE [elapsed |-> o.d, stats |-> StatisticsOf(o.body)]
        ELSE [elapsed |-> o.d, stats |-> EmptyStats]
    ELSE [elapsed |-> 0, stats |-> EmptyStats]

\* The pair (elapsed, statistics) that benchmark_humanization returns.
benchmark_humanization(o) ==
    IF o.kind = "response" THEN
        IF o.status = 200 THEN
            IF ParseRaises(o.body)
            THEN [elapsed |-> 0, stats |-> EmptyStats]
            ELSE [elapsed |-> o.d, stats |-> StatisticsOf(o.body)]
        ELSE [elapsed |-> o.d, stats |-> EmptyStats]
    ELSE IF o.kind = "Timeout" THEN [elapsed |-> TIMEOUT, stats |-> EmptyStats]
    ELSE [elapsed |-> 0, stats |-> EmptyStats]

(* --------------------------- print_summary ----------------------------- *)
\* the guard written `fast >= 0`
Speedup_ge(enhanced, fast) == IF fast >= 0 THEN Div(enhanced, fast) ELSE One

\* speedup = enhanced / fast if fast > 0 else 1
Speedup(enhanced, fast) == IF fast > 0 THEN Div(enhanced, fast) ELSE One

\* Everything print_summary computes from self.results.
print_summary(res) ==
    LET total_fast == SumOver(res, "fast_mode")
        total_enhanced == SumOver(res, "enhanced_mode")
    IN [ called |-> TRUE,
         rows |-> [j \in 1 .. Len(res) |->
                      Speedup(res[j].enhanced_mode, res[j].fast_mode)],
         total_fast |-> total_fast,
         total_enhanced |-> total_enhanced,
         avg_speedup |-> Speedup(total_enhanced, total_fast) ]

\* print_summary raises when one of its divisions does
SummaryRaises(s) ==
    \/ s.avg_speedup = ZeroDivisionError
    \/ \E j \in DOMAIN s.rows : s.rows[j] = ZeroDivisionError

\* no print_summary call yet
NoSummary == [ called |-> FALSE, rows |-> <<>>, total_fast |-> 0,
               total_enhanced |-> 0, avg_speedup |-> One ]

(* ------------------------------ state ---------------------------------- *)
VARIABLES
    pc,             \* where main / run_benchmark stands
    results,        \* self.results
    idx,            \* position of the for loop in TEXT_SIZES
    time_fast,      \* locals of run_benchmark
    stats_fast,
    time_enhanced,
    stats_enhanced,
    server_ok,      \* what check_server returned: "none", "True", "False"
    health,         \* how the latest GET /health ended
    inflight,       \* requests sent and not yet answered
    calls,          \* every request of the current run, in the order sent
    last,           \* outcome and return value of the latest /humanize call
    summary,        \* what the latest print_summary computed
    summaries,      \* print_summary calls of the current run
    base,           \* Len(self.results) when the current run started
    runs,           \* run_benchmark invocations so far
    passed,         \* those of them that got past the check_server gate
    error,          \* the exception that left run_benchmark, or "none"
    ret             \* what the latest direct call of check_server or
                    \* benchmark_humanization gave back to its caller

vars == << pc, results, idx, time_fast, stats_fast, time_enhanced,
           stats_enhanced, server_ok, health, inflight, calls, last, summary,
           summaries, base, runs, passed, error, ret >>

NoOutcome == [kind |-> "none", status |-> 0, body |-> "notJSON", d |-> 0]
NoHealth == [kind |-> "none", status |-> 0]
NoReq == [endpoint |-> "none", size |-> "none", enhanced |-> FALSE]
NoRet == [fn |-> "none", value |-> "none", elapsed |-> 0, stats |-> EmptyStats]
NoCall == [req |-> NoReq, outcome |-> NoOutcome, elapsed |-> 0, stats |-> EmptyStats]

\* HumanizerBenchmark(): __init__ has set self.results = []
Init ==
    /\ pc = "idle"
    /\ results = <<>>
    /\ idx = 1
    /\ time_fast = 0
    /\ stats_fast = EmptyStats
    /\ time_enhanced = 0
    /\ stats_enhanced = EmptyStats
    /\ server_ok = "none"
    /\ health = NoHealth
    /\ inflight = {}
    /\ calls = <<>>
    /\ last = NoCall
    /\ summary = NoSummary
    /\ summaries = 0
    /\ base = 0
    /\ runs = 0
    /\ passed = 0
    /\ error = "none"
    /\ ret = NoRet

(* ----------------------------- run_benchmark --------------------------- *)
HealthReq == [endpoint |-> "/health", size |-> "none", enhanced |-> FALSE]
PostReq(size, enh) == [endpoint |-> "/humanize", size |-> size, enhanced |-> enh]

\* the gate without its `return`
AfterGate_no_return(ok) == "fast"

\* `if not self.check_server(): ... return`: where run_benchmark goes on
AfterGate(ok) == IF ok THEN "fast" ELSE "not_running"

\* states in which no method of the instance is executing
Idle == {"idle", "done", "not_running", "raised"}

\* main() calls benchmark.run_benchmark()
RunBenchmark ==
    /\ pc = "idle"
    /\ runs = 0
    /\ pc' = "start"
    /\ runs' = 1
    /\ base' = Len(results)
    /\ UNCHANGED << results, idx, time_fast, stats_fast, time_enhanced,
                    stats_enhanced, server_ok, health, inflight, calls, last,
                    summary, summaries, passed, error, ret >>

\* run_benchmark calls check_server: requests.get is sent
CheckServerSend ==
    /\ pc = "start"
    /\ pc' = "health"
    /\ inflight' = inflight \cup {HealthReq}
    /\ calls' = Append(calls, HealthReq)
    /\ UNCHANGED << results, idx, time_fast, stats_fast, time_enhanced,
                    stats_enhanced, server_ok, health, last, summary, summaries,
                    base, runs, passed, error, ret >>

\* requests.get ends; check_server returns or raises; `if not
\* self.check_server(): ... return`
CheckServerReturn ==
    /\ pc = "health"
    /\ \E o \in HealthOutcomes :
          LET r == check_server(o) IN
          /\ inflight' = inflight \ {HealthReq}
          /\ health' = o
          /\ IF r.raised
             THEN /\ pc' = "raised"
                  /\ error' = o.kind
                  /\ server_ok' = server_ok
             ELSE /\ pc' = AfterGate(r.value)
                  /\ server_ok' = IF r.value THEN "True" ELSE "False"
                  /\ error' = error
          /\ passed' = IF ~r.raised /\ r.value THEN passed + 1 ELSE passed
    /\ UNCHANGED << results, idx, time_fast, stats_fast, time_enhanced,
                    stats_enhanced, calls, last, summary, summaries,
                    base, runs, ret >>

\* self.benchmark_humanization(text, text_size, enhanced=...): requests.post
\* is sent
HumanizeSend ==
    /\ pc \in {"fast", "enhanced"}
    /\ LET req == PostReq(TEXT_SIZES[idx], pc = "enhanced") IN
          /\ inflight' = inflight \cup {req}
          /\ calls' = Append(calls, req)
    /\ pc' = IF pc = "fast" THEN "fast_call" ELSE "enhanced_call"
    /\ UNCHANGED << results, idx, time_fast, stats_fast, time_enhanced,
                    stats_enhanced, server_ok, health, last, summary, summaries,
                    base, runs, passed, error, ret >>

\* The fast call ends: benchmark_humanization returns, run_benchmark prints
\* the time and, `if stats_fast:`, calls stats_fast.get.
FastReturn(O) ==
    /\ pc = "fast_call"
    /\ \E o \in O :
          LET r == benchmark_humanization(o)
              req == PostReq(TEXT_SIZES[idx], FALSE)
          IN
          /\ inflight' = inflight \ {req}
          /\ last' = [req |-> req, outcome |-> o, elapsed |-> r.elapsed,
                      stats |-> r.stats]
          /\ time_fast' = r.elapsed
          /\ stats_fast' = r.stats
          /\ IF Truthy(r.stats) /\ ~HasGet(r.stats)
             THEN /\ pc' = "raised"
                  /\ error' = "AttributeError"
             ELSE /\ pc' = "enhanced"
                  /\ error' = error
    /\ UNCHANGED << results, idx, time_enhanced, stats_enhanced, server_ok, health,
                    calls, summary, summaries, base, runs, passed, ret >>

\* The enhanced call ends: the same, then the record is appended; after the
\* last input print_summary is called.  The speedup of lines 113-116 is only
\* printed, and its division is guarded by `if time_fast > 0`.
EnhancedReturn(O) ==
    /\ pc = "enhanced_call"
    /\ \E o \in O :
          LET r == benchmark_humanization(o)
              req == PostReq(TEXT_SIZES[idx], TRUE)
              rec == [ size |-> TEXT_SIZES[idx],
                       length |-> TEST_TEXTS_len[TEXT_SIZES[idx]],
                       fast_mode |-> time_fast,
                       enhanced_mode |-> r.elapsed ]
              appended == Append(results, rec)
              s == print_summary(appended)
          IN
          /\ inflight' = inflight \ {req}
          /\ last' = [req |-> req, outcome |-> o, elapsed |-> r.elapsed,
                      stats |-> r.stats]
          /\ time_enhanced' = r.elapsed
          /\ stats_enhanced' = r.stats
          /\ IF Truthy(r.stats) /\ ~HasGet(r.stats)
             THEN /\ pc' = "raised"
                  /\ error' = "AttributeError"
                  /\ UNCHANGED << results, idx, summary, summaries >>
             ELSE IF idx < NumInputs
             THEN /\ results' = appended
                  /\ idx' = idx + 1
                  /\ pc' = "fast"
                  /\ UNCHANGED << summary, summaries, error >>
             ELSE /\ results' = appended
                  /\ idx' = idx
                  /\ summary' = s
                  /\ summaries' = summaries + 1
                  /\ IF SummaryRaises(s)
                     THEN pc' = "raised" /\ error' = "ZeroDivisionError"
                     ELSE pc' = "done" /\ error' = error
    /\ UNCHANGED << time_fast, stats_fast, server_ok, health, calls, base, runs, passed, ret >>

\* a caller invokes print_summary directly
PrintSummaryCall ==
    /\ pc \in Idle
    /\ LET s == print_summary(results) IN
          /\ summary' = s
          /\ IF SummaryRaises(s)
             THEN pc' = "raised" /\ error' = "ZeroDivisionError"
             ELSE UNCHANGED << pc, error >>
    /\ UNCHANGED << results, idx, time_fast, stats_fast, time_enhanced,
                    stats_enhanced, server_ok, health, inflight, calls, last,
                    summaries, base, runs, passed, ret >>

Next ==
    \/ RunBenchmark
    \/ PrintSummaryCall
    \/ CheckServerSend
    \/ CheckServerReturn
    \/ HumanizeSend
    \/ FastReturn(PostOutcomes)
    \/ EnhancedReturn(PostOutcomes)

\* main(): one instance, one run_benchmark
Spec == Init /\ [][Next]_vars

(* ------------------- one instance driven several times ----------------- *)
\* run_benchmark is called again on the same instance
RunBenchmarkAgain ==
    /\ pc \in Idle \ {"idle"}
    /\ runs < MaxRuns
    /\ pc' = "start"
    /\ runs' = runs + 1
    /\ base' = Len(results)
    /\ idx' = 1
    /\ time_fast' = 0
    /\ stats_fast' = EmptyStats
    /\ time_enhanced' = 0
    /\ stats_enhanced' = EmptyStats
    /\ server_ok' = "none"
    /\ health' = NoHealth
    /\ calls' = <<>>
    /\ last' = NoCall
    /\ summaries' = 0
    /\ error' = "none"
    /\ ret' = NoRet
    /\ UNCHANGED << results, inflight, summary, passed >>

\* a caller invokes check_server directly
CheckServerCall ==
    /\ pc \in Idle
    /\ \E o \in HealthOutcomes :
          LET r == check_server(o) IN
          ret' = [fn |-> "check_server",
                  value |-> IF r.raised THEN "raise"
                            ELSE IF r.value THEN "True" ELSE "False",
                  elapsed |-> 0, stats |-> EmptyStats]
    /\ UNCHANGED << pc, results, idx, time_fast, stats_fast, time_enhanced,
                    stats_enhanced, server_ok, health, inflight, calls, last,
                    summary, summaries, base, runs, passed, error >>

\* a caller invokes benchmark_humanization directly
BenchmarkHumanizationCall(O) ==
    /\ pc \in Idle
    /\ \E o \in O :
          LET r == benchmark_humanization(o) IN
          ret' = [fn |-> "benchmark_humanization", value |-> "none",
                  elapsed |-> r.elapsed, stats |-> r.stats]
    /\ UNCHANGED << pc, results, idx, time_fast, stats_fast, time_enhanced,
                    stats_enhanced, server_ok, health, inflight, calls, last,
                    summary, summaries, base, runs, passed, error >>

NextReuse ==
    \/ RunBenchmark
    \/ RunBenchmarkAgain
    \/ PrintSummaryCall
    \/ CheckServerCall
    \/ BenchmarkHumanizationCall(ReuseOutcomes)
    \/ CheckServerSend
    \/ CheckServerReturn
    \/ HumanizeSend
    \/ FastReturn(ReuseOutcomes)
    \/ EnhancedReturn(ReuseOutcomes)

SpecReuse == Init /\ [][NextReuse]_vars

(* ============================== claims ================================= *)
\* requests of a run that got through the gate and visited every input
ExpectedCalls ==
    << HealthReq,
       PostReq("short", FALSE), PostReq("short", TRUE),
       PostReq("medium", FALSE), PostReq("medium", TRUE),
       PostReq("long", FALSE), PostReq("long", TRUE) >>

IsPrefix(s, t) == Len(s) <= Len(t) /\ SubSeq(t, 1, Len(s)) = s

\* run_benchmark has ended, by return or by an exception
RunEnded == pc \in {"done", "not_running", "raised"}

Is200(o) == o.kind = "response" /\ o.status = 200

RECURSIVE PrefixSum(_, _, _)
\* r[1][field] + ... + r[n][field]
PrefixSum(r, field, n) ==
    IF n = 0 THEN 0 ELSE PrefixSum(r, field, n - 1) + r[n][field]

\* row is the ratio num / den
IsRatio(row, num, den) == row[2] # 0 /\ row[1] * den = num * row[2]

\* C1: when check_server returned false, the run has ended at the gate: no
\* POST to /humanize was sent, nothing was appended to results and
\* print_summary was not called.
C1_AvailabilityGate ==
    server_ok = "False" =>
        /\ pc = "not_running"
        /\ inflight = {}
        /\ calls = << HealthReq >>
        /\ \A k \in 1 .. Len(calls) : calls[k].endpoint # "/humanize"
        /\ last = NoCall
        /\ Len(results) = base
        /\ summaries = 0

C1_Witness ==
    /\ server_ok = "False"
    /\ pc = "not_running"
    /\ health.kind = "ConnectionError"

\* C2: whatever way the health request ends, check_server returns, and it
\* returns true exactly when the request gave status 200.
C2_CheckServerNeverRaises ==
    health # NoHealth =>
        server_ok = IF Is200(health) THEN "True" ELSE "False"

\* C3: once a run that passed the gate has ended, results holds exactly one
\* record per input, in the order short, medium, long, each with the label
\* and the length of its input and the two times measured for it.
C3_OneRecordPerInput ==
    (server_ok = "True" /\ RunEnded) =>
        /\ Len(results) = NumInputs
        /\ \A j \in 1 .. Len(results) :
              /\ results[j].size = TEXT_SIZES[j]
              /\ results[j].length = TEST_TEXTS_len[TEXT_SIZES[j]]
        /\ results[NumInputs].fast_mode = time_fast
        /\ results[NumInputs].enhanced_mode = time_enhanced

\* C4: every recorded elapsed time lies between 0 and the ceiling of 60.
C4_ElapsedWithinCeiling ==
    \A j \in 1 .. Len(results) :
        /\ 0 <= results[j].fast_mode /\ results[j].fast_mode <= TIMEOUT
        /\ 0 <= results[j].enhanced_mode /\ results[j].enhanced_mode <= TIMEOUT

\* C5: after the gate has passed no outcome of a timed call ends the sweep:
\* no exception leaves run_benchmark, and a run that has ended has appended
\* a record for every input and called print_summary exactly once.
C5_SweepNeverAborted ==
    server_ok = "True" =>
        /\ pc # "raised"
        /\ error = "none"
        /\ RunEnded => (Len(results) = base + NumInputs /\ summaries = 1)

\* C6: a timed call that did not end with a 200 response returns the empty
\* statistics mapping, with elapsed 60 on a timeout, 0 on another transport
\* failure and the measured time on a non-200 status; statistics other than
\* the empty mapping are the ones a 200 response carried.
C6_FailureResults ==
    last.outcome.kind # "none" =>
        LET o == last.outcome IN
        /\ ~Is200(o) =>
              /\ last.stats = EmptyStats
              /\ o.kind = "Timeout" => last.elapsed = TIMEOUT
              /\ o.kind = "ConnectionError" => last.elapsed = 0
              /\ o.kind = "response" => last.elapsed = o.d
        /\ last.stats # EmptyStats => (Is200(o) /\ o.body = last.stats)
        /\ pc = "enhanced" => (time_fast = last.elapsed /\ stats_fast = last.stats)
        /\ (pc \in {"fast", "done"} /\ Len(results) > 0) =>
              results[Len(results)].enhanced_mode = last.elapsed

C6_Witness ==
    /\ Len(results) >= 1
    /\ results[1].fast_mode = TIMEOUT
    /\ results[1].enhanced_mode = 0
    /\ last.outcome.kind = "response"
    /\ last.outcome.status = 500
    /\ last.elapsed = last.outcome.d

\* C7: print_summary never divides by zero; each row holds enhanced / fast
\* when fast > 0 and 1 otherwise, the totals are the sums of the elapsed
\* times of the records, and the overall speedup is total_enhanced /
\* total_fast under the same guard.
C7_Summary ==
    /\ error # "ZeroDivisionError"
    /\ summary.called =>
          LET n == Len(summary.rows) IN
          /\ n <= Len(results)
          /\ pc = "done" => n = Len(results)
          /\ \A j \in 1 .. n :
                IF results[j].fast_mode > 0
                THEN IsRatio(summary.rows[j], results[j].enhanced_mode,
                             results[j].fast_mode)
                ELSE IsRatio(summary.rows[j], 1, 1)
          /\ summary.total_fast = PrefixSum(results, "fast_mode", n)
          /\ summary.total_enhanced = PrefixSum(results, "enhanced_mode", n)
          /\ IF summary.total_fast > 0
             THEN IsRatio(summary.avg_speedup, summary.total_enhanced,
                          summary.total_fast)
             ELSE IsRatio(summary.avg_speedup, 1, 1)

C7_Witness ==
    /\ pc = "done"
    /\ summary.called
    /\ Len(summary.rows) = NumInputs
    /\ summary.total_fast = 0
    /\ summary.total_enhanced > 0
    /\ results[1].fast_mode = 0

\* C8: a call answered with status 200 records the measured wall-clock
\* time, never the 0 of a transport failure nor the 60 of a timeout, and
\* the statistics the response reported, whatever the body.
C8_SuccessKeepsMeasuredTime ==
    Is200(last.outcome) =>
        /\ last.elapsed = last.outcome.d
        /\ last.elapsed # 0
        /\ last.outcome.body \in {"map", "null", "list"} =>
              last.stats = last.outcome.body
        /\ last.outcome.body \in {"emptyMap", "noStatistics"} =>
              last.stats = EmptyStats

\* C9: at most one request is in flight; the requests of a run are sent in
\* the order health, short fast, short enhanced, medium fast, ..., each at
\* most once; and a run that got through the gate has sent exactly two
\* /humanize requests per input.
C9_SequentialSingleShot ==
    /\ Cardinality(inflight) <= 1
    /\ IsPrefix(calls, ExpectedCalls)
    /\ (server_ok = "True" /\ RunEnded) => calls = ExpectedCalls

\* C10: results is append-only: a step either leaves it unchanged or is
\* run_benchmark appending the record of the current input; a gate-failed
\* run and direct calls of the other methods leave it unchanged; so when no
\* run is executing results holds three records per gate-passing run.
C10_AppendOnly ==
    /\ [][ \/ results' = results
           \/ /\ pc = "enhanced_call"
              /\ Len(results') = Len(results) + 1
              /\ SubSeq(results', 1, Len(results)) = results
              /\ results'[Len(results')].size = TEXT_SIZES[idx] ]_vars
    /\ [](pc \in Idle => Len(results) = NumInputs * passed)

====
